---- MODULE Spec2Model ----
(***************************************************************************)
(* Model of the incident grouping engine (src/src/incident_grouper.py):    *)
(* IncidentGrouper.group_incidents, _create_incident, get_incident_stats.  *)
(*                                                                         *)
(* A log record is [line_number, timestamp, level, component, block_id].   *)
(* A timestamp is the ISO string the parser writes, "....THH:MM:SS"; the   *)
(* model keeps its two lowest fields as <<MM, SS>> (all higher fields are  *)
(* equal in a batch).  The sort of group_incidents compares the strings    *)
(* (field by field, the fields being zero padded), the clustering compares *)
(* the datetimes that datetime.fromisoformat makes of them (seconds).      *)
(***************************************************************************)
EXTENDS Integers, Sequences, FiniteSets, TLC

VARIABLES logs, time_window, incidents, outcome, prev_incidents, prev_outcome,
          runs, stats, stats_done

vars == <<logs, time_window, incidents, outcome, prev_incidents, prev_outcome,
          runs, stats, stats_done>>

-----------------------------------------------------------------------------
(* Bounds of the model *)

MaxLogs == 3

MaxMinute == 1

MaxWindowMinutes == 1

-----------------------------------------------------------------------------
(* Values *)

\* Python's None as the value of block_id (hdfs_parser.py:64)
NoneVal == "<None>"

\* seconds of one minute, timedelta(minutes=...)
SecondsPerMinute == 60

\* the second fields the batches are drawn from
Seconds == {0, 30}

\* timestamps of an early and of a late minute
Timestamps == {<<m, s>> : m \in {0, MaxMinute}, s \in Seconds}


BlockIds == {"blk_A", "blk_B"}

KnownLevels == {"FATAL", "ERROR", "WARN", "INFO", "DEBUG"}

\* a label the priority table of _create_incident does not know
UnknownLevels == {"TRACE"}

Components == {"dfs.DataNode"}

\* the batches of at most MaxLogs records, record i carrying line_number i
LogBatches(Ks, Ts, Ls) ==
  UNION { { [i \in 1..n |-> [line_number |-> i,
                             timestamp   |-> f[i].timestamp,
                             level       |-> f[i].level,
                             component   |-> f[i].component,
                             block_id    |-> f[i].block_id]]
            : f \in [1..n -> [timestamp: Ts, level: Ls,
                              component: Components, block_id: Ks]] }
          : n \in 0..MaxLogs }

-----------------------------------------------------------------------------
(* Conversions *)

\* datetime.fromisoformat(log['timestamp']), in seconds
fromisoformat(ts) == ts[1] * SecondsPerMinute + ts[2]

\* datetime.isoformat()
isoformat(t) == <<t \div SecondsPerMinute, t % SecondsPerMinute>>

\* timedelta(minutes=time_window_minutes), in seconds
timedelta(time_window_minutes) == time_window_minutes * SecondsPerMinute

\* a <= b for two timestamp strings (the order list.sort uses on the key)
StrLeq(a, b) == a[1] < b[1] \/ (a[1] = b[1] /\ a[2] <= b[2])

-----------------------------------------------------------------------------
(* group_incidents: filter and partition *)

\* variant: only None counts as absent
TruthyNotNone(block_id) == block_id # NoneVal

\* log.get('block_id') is truthy: neither None nor the empty string
Truthy(block_id) == block_id # NoneVal /\ block_id # ""

logs_with_blocks(ls) == SelectSeq(ls, LAMBDA log : Truthy(log.block_id))

RECURSIVE block_keys(_, _, _)
\* the keys of the dict blocks, in insertion order
block_keys(ls, i, keys) ==
  IF i > Len(ls) THEN keys
  ELSE block_keys(ls, i + 1,
         IF \E k \in 1..Len(keys) : keys[k] = ls[i].block_id
           THEN keys ELSE Append(keys, ls[i].block_id))

\* blocks[block_id]
block_list(ls, block_id) == SelectSeq(ls, LAMBDA log : log.block_id = block_id)

-----------------------------------------------------------------------------
(* group_incidents: the sort *)

\* variant: x goes before the elements of equal key (an unstable sort)
insert_pos_before_equal(sorted, x) ==
  Cardinality({i \in 1..Len(sorted) :
                 ~StrLeq(x.timestamp, sorted[i].timestamp)})

\* where a stable sort puts x into a sorted list: after every element whose
\* key is not greater
insert_pos(sorted, x) ==
  Cardinality({i \in 1..Len(sorted) : StrLeq(sorted[i].timestamp, x.timestamp)})

RECURSIVE sort_by_timestamp(_, _, _)
\* block_logs.sort(key=lambda x: x['timestamp'])
sort_by_timestamp(block_logs, i, sorted) ==
  IF i > Len(block_logs) THEN sorted
  ELSE LET p == insert_pos(sorted, block_logs[i])
       IN sort_by_timestamp(block_logs, i + 1,
            SubSeq(sorted, 1, p) \o <<block_logs[i]>>
              \o SubSeq(sorted, p + 1, Len(sorted)))

-----------------------------------------------------------------------------
(* _create_incident *)

\* variant: a default above every known label
level_priority_unknown_high(x) ==
  CASE x = "FATAL" -> 4 [] x = "ERROR" -> 3 [] x = "WARN" -> 2
    [] x = "INFO" -> 1 [] x = "DEBUG" -> 0 [] OTHER -> 5

\* variant: ERROR and WARN exchanged
level_priority_swapped(x) ==
  CASE x = "FATAL" -> 4 [] x = "ERROR" -> 2 [] x = "WARN" -> 3
    [] x = "INFO" -> 1 [] x = "DEBUG" -> 0 [] OTHER -> 0

\* level_priority.get(x, 0)
level_priority(x) ==
  CASE x = "FATAL" -> 4 [] x = "ERROR" -> 3 [] x = "WARN" -> 2
    [] x = "INFO" -> 1 [] x = "DEBUG" -> 0 [] OTHER -> 0

RECURSIVE max_by_priority(_, _, _)
\* max(levels, key=...): the first element of the greatest key
max_by_priority(levels, i, best) ==
  IF i > Len(levels) THEN best
  ELSE max_by_priority(levels, i + 1,
         IF level_priority(levels[i]) > level_priority(best)
           THEN levels[i] ELSE best)

SeqMin(s) == CHOOSE x \in {s[i] : i \in 1..Len(s)} :
               \A j \in 1..Len(s) : x <= s[j]

SeqMax(s) == CHOOSE x \in {s[i] : i \in 1..Len(s)} :
               \A j \in 1..Len(s) : x >= s[j]

create_incident(incident_id, block_id, ls) ==
  LET timestamps == [i \in 1..Len(ls) |-> fromisoformat(ls[i].timestamp)]
      start_time == SeqMin(timestamps)
      end_time   == SeqMax(timestamps)
      levels     == [i \in 1..Len(ls) |-> ls[i].level]
  IN [incident_id      |-> incident_id,
      block_id         |-> block_id,
      start_time       |-> isoformat(start_time),
      end_time         |-> isoformat(end_time),
      duration_seconds |-> end_time - start_time,
      num_logs         |-> Len(ls),
      severity         |-> max_by_priority(levels, 2, levels[1]),
      components       |-> {ls[i].component : i \in 1..Len(ls)},
      logs             |-> ls]

-----------------------------------------------------------------------------
(* group_incidents: the clustering loop *)

\* current_start_time = None
NoTime == -1

\* variant: numbering from 0
FirstIncidentIdZero == Len(<<>>)

\* variant: a counter kept across calls
FirstIncidentIdContinued == Len(incidents) + 1

\* incident_id = 1
FirstIncidentId == 1

\* variant: < in place of <=
within_window_strict(log_time, current_start_time, window) ==
  log_time - current_start_time < window

\* log_time - current_start_time <= self.time_window
within_window(log_time, current_start_time, window) ==
  log_time - current_start_time <= window

\* variant: the window slides to the record just added
start_time_after_append_sliding(current_start_time, log_time) == log_time

\* the anchor after a record was added to the current incident: unchanged
start_time_after_append(current_start_time, log_time) == current_start_time

\* one iteration of "for log in block_logs"
loop_body(st, block_id, log, window) ==
  LET log_time == fromisoformat(log.timestamp)
  IN IF st.current_start_time = NoTime
       THEN [st EXCEPT !.current_start_time = log_time,
                       !.current_incident = <<log>>]
     ELSE IF within_window(log_time, st.current_start_time, window)
       THEN [st EXCEPT !.current_start_time =
                         start_time_after_append(st.current_start_time, log_time),
                       !.current_incident = Append(st.current_incident, log)]
     ELSE IF st.current_incident # <<>>
       THEN [incidents |-> Append(st.incidents,
                             create_incident(st.incident_id, block_id,
                                             st.current_incident)),
             incident_id |-> st.incident_id + 1,
             current_start_time |-> log_time,
             current_incident |-> <<log>>]
     ELSE [st EXCEPT !.current_start_time = log_time,
                     !.current_incident = <<log>>]

RECURSIVE cluster_loop(_, _, _, _, _)
cluster_loop(st, block_id, block_logs, i, window) ==
  IF i > Len(block_logs) THEN st
  ELSE cluster_loop(loop_body(st, block_id, block_logs[i], window),
                    block_id, block_logs, i + 1, window)

\* one iteration of "for block_id, block_logs in blocks.items()"
process_block(st, block_id, block_logs, window) ==
  LET sorted == sort_by_timestamp(block_logs, 1, <<>>)
      st1 == cluster_loop([st EXCEPT !.current_incident = <<>>,
                                     !.current_start_time = NoTime],
                          block_id, sorted, 1, window)
  IN IF st1.current_incident # <<>>
       THEN [st1 EXCEPT !.incidents =
                          Append(st1.incidents,
                                 create_incident(st1.incident_id, block_id,
                                                 st1.current_incident)),
                        !.incident_id = st1.incident_id + 1]
       ELSE st1

RECURSIVE blocks_loop(_, _, _, _, _)
blocks_loop(st, keys, k, ls, window) ==
  IF k > Len(keys) THEN st
  ELSE blocks_loop(process_block(st, keys[k], block_list(ls, keys[k]), window),
                   keys, k + 1, ls, window)

\* the list incidents of group_incidents when the loops are over (line 81)
group_incidents(ls, window) ==
  LET with_blocks == logs_with_blocks(ls)
      keys == block_keys(with_blocks, 1, <<>>)
      st0 == [incidents |-> <<>>, incident_id |-> FirstIncidentId,
              current_incident |-> <<>>, current_start_time |-> NoTime]
  IN blocks_loop(st0, keys, 1, with_blocks, window).incidents

-----------------------------------------------------------------------------
(* get_incident_stats *)

\* variant: the number of elements in place of their sum
sum_count(s, i) == Len(s)

RECURSIVE sum_seq(_, _)

\* sum(...)
sum_seq(s, i) == IF i > Len(s) THEN 0 ELSE s[i] + sum_seq(s, i + 1)

\* a / b of two numbers: the quotient, kept as the fraction
true_div(a, b) == [num |-> a, den |-> b]

\* severities.count(level)
count(severities, level) ==
  Cardinality({i \in 1..Len(severities) : severities[i] = level})

\* the empty dict
EmptyDict == <<>>

get_incident_stats(incs) ==
  IF incs = <<>> THEN EmptyDict
  ELSE LET num_logs_per_incident == [i \in 1..Len(incs) |-> incs[i].num_logs]
           durations  == [i \in 1..Len(incs) |-> incs[i].duration_seconds]
           severities == [i \in 1..Len(incs) |-> incs[i].severity]
       IN [total_incidents        |-> Len(incs),
           total_logs             |-> sum_seq(num_logs_per_incident, 1),
           avg_logs_per_incident  |-> true_div(sum_seq(num_logs_per_incident, 1),
                                               Len(incs)),
           min_logs_per_incident  |-> SeqMin(num_logs_per_incident),
           max_logs_per_incident  |-> SeqMax(num_logs_per_incident),
           avg_duration_seconds   |-> true_div(sum_seq(durations, 1),
                                               Len(durations)),
           severity_distribution  |->
             [level \in {severities[i] : i \in 1..Len(severities)}
                |-> count(severities, level)]]

-----------------------------------------------------------------------------
(* The program *)

InitWith(batches, minutes) ==
  /\ logs \in batches
  /\ time_window \in {timedelta(m) : m \in minutes}
  /\ incidents = <<>>
  /\ outcome = "none"
  /\ prev_incidents = <<>>
  /\ prev_outcome = "none"
  /\ runs = 0
  /\ stats = EmptyDict
  /\ stats_done = FALSE

\* batches of keyed records of two blocks over every timestamp
Init == InitWith(LogBatches(BlockIds, Timestamps, {"INFO"}), 0..MaxWindowMinutes)

\* incidents = grouper.group_incidents(logs); the call is made a first and
\* a second time on the same batch
GroupIncidents ==
  /\ runs < 2
  /\ ~stats_done
  /\ LET result == group_incidents(logs, time_window)
     IN IF Len(result) = 0
          \* line 83: len(logs_with_blocks)/len(incidents) divides by zero
          THEN /\ outcome' = "ZeroDivisionError"
               /\ incidents' = incidents
          ELSE /\ outcome' = "returned"
               /\ incidents' = result
  /\ prev_incidents' = incidents
  /\ prev_outcome' = outcome
  /\ runs' = runs + 1
  /\ UNCHANGED <<logs, time_window, stats, stats_done>>

\* stats = grouper.get_incident_stats(incidents), on the collection the
\* caller holds (empty as long as no grouping returned)
GetIncidentStats ==
  /\ ~stats_done
  /\ stats' = get_incident_stats(incidents)
  /\ stats_done' = TRUE
  /\ UNCHANGED <<logs, time_window, incidents, outcome, prev_incidents,
                 prev_outcome, runs>>

Next == GroupIncidents \/ GetIncidentStats

Spec == Init /\ [][Next]_vars

\* batches over keyed, unkeyed and empty-keyed records, early and late
InitKeys ==
  InitWith(LogBatches(BlockIds \cup {NoneVal, ""},
                      {<<0, 0>>, <<MaxMinute, 30>>}, {"INFO"}),
           0..MaxWindowMinutes)

SpecKeys == InitKeys /\ [][Next]_vars

\* batches of one block over every level label, early and late, grouped
\* with the widest window
InitSev ==
  InitWith(LogBatches({"blk_A"}, {<<0, 0>>, <<MaxMinute, 30>>},
                      KnownLevels \cup UnknownLevels),
           {MaxWindowMinutes})

SpecSev == InitSev /\ [][Next]_vars

-----------------------------------------------------------------------------
(* Properties *)

\* the time of a record, in seconds
T(log) == fromisoformat(log.timestamp)

Returned == outcome = "returned"

IncIdx == 1..Len(incidents)

\* C1: within one key a record joins the current incident iff it is at most
\* the window after the anchor (the first record of the incident); so every
\* member is within the window of its incident's first record, and the first
\* record of the next incident of the same key is more than the window after
\* the start_time of the incident before it.
C1_FixedOriginSplit ==
  Returned =>
    /\ \A k \in IncIdx : \A j \in 1..Len(incidents[k].logs) :
         T(incidents[k].logs[j]) - T(incidents[k].logs[1]) <= time_window
    /\ \A k \in 1..(Len(incidents) - 1) :
         incidents[k].block_id = incidents[k + 1].block_id =>
           T(incidents[k + 1].logs[1]) - fromisoformat(incidents[k].start_time)
             > time_window

\* the example of the spec: a record opens a new incident although it is
\* within the window of the record before it
C1_Witness ==
  /\ Returned
  /\ \E k \in 1..(Len(incidents) - 1) :
       /\ incidents[k].block_id = incidents[k + 1].block_id
       /\ Len(incidents[k].logs) >= 2
       /\ T(incidents[k].logs[2]) > T(incidents[k].logs[1])
       /\ T(incidents[k + 1].logs[1])
            - T(incidents[k].logs[Len(incidents[k].logs)]) <= time_window

\* C2: every member record of every incident is at most the window after
\* the incident's start_time.
C2_WindowConformance ==
  Returned =>
    \A k \in IncIdx : \A j \in 1..Len(incidents[k].logs) :
      T(incidents[k].logs[j]) - fromisoformat(incidents[k].start_time)
        <= time_window

\* an incident of three records at three times, the last one exactly the
\* window after the start
C2_Witness ==
  /\ Returned
  /\ time_window > 0
  /\ \E k \in IncIdx :
       /\ Len(incidents[k].logs) = 3
       /\ T(incidents[k].logs[1]) < T(incidents[k].logs[2])
       /\ T(incidents[k].logs[2]) < T(incidents[k].logs[3])
       /\ T(incidents[k].logs[3]) - fromisoformat(incidents[k].start_time)
            = time_window

\* a record has a correlation key: block_id is neither absent nor empty
Keyed(log) == log.block_id # NoneVal /\ log.block_id # ""

\* the places <<incident, position>> at which a record is a member
Places(log) ==
  UNION { { <<k, j>> : j \in {j \in 1..Len(incidents[k].logs) :
                                 incidents[k].logs[j] = log} }
          : k \in IncIdx }

RECURSIVE SumNumLogs(_)
SumNumLogs(k) == IF k = 0 THEN 0 ELSE incidents[k].num_logs + SumNumLogs(k - 1)

\* C3: every keyed input record is a member of exactly one incident, every
\* record without a key of none; the num_logs add up to the number of keyed
\* input records.
C3_PartitionCompleteness ==
  Returned =>
    /\ \A i \in 1..Len(logs) :
         Cardinality(Places(logs[i])) = IF Keyed(logs[i]) THEN 1 ELSE 0
    /\ \A k \in IncIdx : \A j \in 1..Len(incidents[k].logs) :
         \E i \in 1..Len(logs) : incidents[k].logs[j] = logs[i]
    /\ SumNumLogs(Len(incidents))
         = Cardinality({i \in 1..Len(logs) : Keyed(logs[i])})

\* a batch of a keyed record, a record of empty key and one without key
C3_Witness ==
  /\ Returned
  /\ Len(incidents) >= 1
  /\ \E i \in 1..Len(logs) : logs[i].block_id = ""
  /\ \E i \in 1..Len(logs) : logs[i].block_id = NoneVal

\* C4: a batch without any keyed record is grouped without an error, into
\* zero incidents.
C4_NoGroupableRecordIsNoError ==
  (runs >= 1 /\ \A i \in 1..Len(logs) : ~Keyed(logs[i])) =>
    (outcome = "returned" /\ incidents = <<>>)

\* the scale of severity priorities
ScalePriority(x) ==
  CASE x = "FATAL" -> 4 [] x = "ERROR" -> 3 [] x = "WARN" -> 2
    [] x = "INFO" -> 1 [] OTHER -> 0

MemberLevels(k) == {incidents[k].logs[j].level : j \in 1..Len(incidents[k].logs)}

\* C5: the priority of an incident's severity is the greatest priority of
\* its members' levels, and the severity is the level of a member.
C5_SeverityCorrectness ==
  Returned =>
    \A k \in IncIdx :
      /\ incidents[k].severity \in MemberLevels(k)
      /\ \A l \in MemberLevels(k) :
           ScalePriority(l) <= ScalePriority(incidents[k].severity)

\* the example of the spec, with the WARN before the ERROR
C5_Witness ==
  /\ Returned
  /\ \E k \in IncIdx :
       /\ incidents[k].logs[1].level = "WARN"
       /\ "ERROR" \in MemberLevels(k)
       /\ incidents[k].severity = "ERROR"

\* C6 as claimed: an incident with a member of a known label has a known
\* label as its severity.
C6_UnknownNeverOverridesKnown ==
  Returned =>
    \A k \in IncIdx :
      (MemberLevels(k) \cap KnownLevels # {}) =>
        incidents[k].severity \in KnownLevels

\* C6 as amended: an incident with a member of a known label of priority
\* above 0 has a known label as its severity; an incident whose members all
\* have priority 0 (DEBUG and unrecognized labels) reports the label of its
\* first member.
C6_UnknownNeverOverridesHigher ==
  Returned =>
    \A k \in IncIdx :
      /\ (MemberLevels(k) \cap {"FATAL", "ERROR", "WARN", "INFO"} # {}) =>
           incidents[k].severity \in KnownLevels
      /\ (\A l \in MemberLevels(k) : ScalePriority(l) = 0) =>
           incidents[k].severity = incidents[k].logs[1].level

\* an unrecognized label first in an incident, a known label of priority
\* above 0 after it
C6_Witness ==
  /\ Returned
  /\ \E k \in IncIdx :
       /\ incidents[k].logs[1].level \in UnknownLevels
       /\ MemberLevels(k) \cap {"FATAL", "ERROR", "WARN", "INFO"} # {}

\* the input position of the first record of a key
FirstIndex(key) ==
  CHOOSE i \in 1..Len(logs) :
    /\ logs[i].block_id = key
    /\ \A j \in 1..(i - 1) : logs[j].block_id # key

\* C7: the k-th incident has incident_id k; the incidents follow the order
\* in which their keys first appear in the input, those of one key next to
\* each other and in ascending start_time.
C7_IncidentIdOrder ==
  Returned =>
    /\ \A k \in IncIdx : incidents[k].incident_id = k
    /\ \A k1, k2 \in IncIdx :
         k1 < k2 =>
           FirstIndex(incidents[k1].block_id) <= FirstIndex(incidents[k2].block_id)
    /\ \A k \in 1..(Len(incidents) - 1) :
         incidents[k].block_id = incidents[k + 1].block_id =>
           fromisoformat(incidents[k].start_time)
             < fromisoformat(incidents[k + 1].start_time)

\* two incidents of the key seen first, then one of another key that is
\* earlier in time
C7_Witness ==
  /\ Returned
  /\ Len(incidents) = 3
  /\ incidents[1].block_id = incidents[2].block_id
  /\ incidents[2].block_id # incidents[3].block_id
  /\ fromisoformat(incidents[3].start_time)
       < fromisoformat(incidents[2].start_time)

RECURSIVE SumOver(_, _)
\* the sum of f over the set S
SumOver(f, S) ==
  IF S = {} THEN 0
  ELSE LET x == CHOOSE x \in S : TRUE IN f[x] + SumOver(f, S \ {x})

\* C8: the statistics of a non-empty collection of incidents agree with the
\* collection; those of an empty collection are empty.
C8_StatisticsConsistency ==
  stats_done =>
    IF incidents = <<>> THEN DOMAIN stats = {}
    ELSE /\ stats.total_incidents = Len(incidents)
         /\ stats.total_logs = SumNumLogs(Len(incidents))
         /\ stats.avg_logs_per_incident.num = stats.total_logs
         /\ stats.avg_logs_per_incident.den = stats.total_incidents
         /\ \A k \in IncIdx :
              /\ stats.min_logs_per_incident <= incidents[k].num_logs
              /\ stats.max_logs_per_incident >= incidents[k].num_logs
         /\ \E k \in IncIdx : stats.min_logs_per_incident = incidents[k].num_logs
         /\ \E k \in IncIdx : stats.max_logs_per_incident = incidents[k].num_logs
         /\ DOMAIN stats.severity_distribution
              = {incidents[k].severity : k \in IncIdx}
         /\ SumOver(stats.severity_distribution,
                    DOMAIN stats.severity_distribution)
              = stats.total_incidents

\* statistics of two incidents of different sizes and severities
C8_Witness ==
  /\ stats_done
  /\ Len(incidents) = 2
  /\ incidents[1].num_logs # incidents[2].num_logs
  /\ incidents[1].severity # incidents[2].severity

C10_InternalOrdering ==
  Returned =>
    \A k \in IncIdx : \A j \in 1..(Len(incidents[k].logs) - 1) :
      LET a == incidents[k].logs[j]
          b == incidents[k].logs[j + 1]
      IN /\ T(a) <= T(b)
         /\ T(a) = T(b) => a.line_number < b.line_number

\* an incident the sort had to reorder, with two records of one timestamp
C10_Witness ==
  /\ Returned
  /\ \E k \in IncIdx :
       /\ \E j \in 1..(Len(incidents[k].logs) - 1) :
            T(incidents[k].logs[j]) = T(incidents[k].logs[j + 1])
       /\ \E j \in 1..(Len(incidents[k].logs) - 1) :
            incidents[k].logs[j].line_number
              > incidents[k].logs[j + 1].line_number

====
